---- MODULE Spec2Model ----
(***************************************************************************)
(* Model of the sparse-file copier of tlpi-rust (src/bin/copy_holes.rs)    *)
(* together with the file-descriptor layer it runs on (src/fd.rs) and the  *)
(* two plain copy loops (src/bin/copy.rs, src/bin/tee.rs).                 *)
(*                                                                         *)
(* Indices are 0-based as in the Rust source; a Rust index i of a slice is *)
(* element i + 1 of the TLA+ sequence that models the slice.               *)
(***************************************************************************)
EXTENDS Integers, Sequences, FiniteSets, TLC

\* ------------------------------------------------------------------------
\* Bounds of the model
\* ------------------------------------------------------------------------

\* longest source file
MaxLen == 4
\* largest byte value (0 is the hole byte, 1..MaxByte are data bytes)
MaxByte == 2
\* largest scaled-down value of the buffer capacity BUF_SIZE
MaxBufSize == 3
\* most calls of RegionReader::read made after it has returned None
MaxPolls == 2

Bytes == 0..MaxByte

VARIABLES
    BUF_SIZE,   \* capacity of the read and write buffers (scaled down)
    prog,       \* the program that runs: "copy_holes", "copy" or "tee"
    pc,         \* position of the program in its main function
    result,     \* value returned by the main function: "none", "Ok", "Err"
    fds,        \* the files behind the descriptors: contents and offset
    reader,     \* RegionReader: buffer, next_index, bytes_read
    writer,     \* BulkWriter: buffer, capacity, pending_extend, bytes_added
    region,     \* the region copy_with_holes holds between read and write
    regions,    \* history: the regions RegionReader.read has returned
    calls,      \* history: the BulkWriter calls made by copy_with_holes
    ops,        \* history: the system calls issued on the descriptors
    diag,       \* history: the diagnostics reported (err_exit! / fatal!)
    handles,    \* the descriptors opened and not yet passed to close()
    earlier     \* what an earlier run of the program on the source left

vars == <<BUF_SIZE, prog, pc, result, fds, reader, writer, region, regions,
          calls, ops, diag, handles, earlier>>

\* ------------------------------------------------------------------------
\* Helpers
\* ------------------------------------------------------------------------

Min(a, b) == IF a < b THEN a ELSE b

Max(a, b) == IF a > b THEN a ELSE b

Zeros(n) == [i \in 1..n |-> 0]

SeqsUpTo(S, n) == UNION {[1..k -> S] : k \in 0..n}

\* ------------------------------------------------------------------------
\* The kernel's side of fd.rs: files with contents and a current offset
\* ------------------------------------------------------------------------

\* One record of the system-call history.  ret is the value the system call
\* returned, -1 standing for the error return that errno_check! maps to Err.
Op(fd, op, offset, arg, data, ret) ==
    [fd |-> fd, op |-> op, offset |-> offset, arg |-> arg, data |-> data,
     ret |-> ret]

\* Contents of a file after `data` is stored at byte offset `off`; a gap
\* between the old end of file and `off` reads as zero.
StoreAt(contents, off, data) ==
    LET newLen == Max(Len(contents), off + Len(data))
    IN  [i \in 1..newLen |->
            IF i > off /\ i <= off + Len(data) THEN data[i - off]
            ELSE IF i <= Len(contents) THEN contents[i]
            ELSE 0]

\* Contents of a file after its length is set to `length`.
SetLength(contents, length) ==
    [i \in 1..length |-> IF i <= Len(contents) THEN contents[i] ELSE 0]

\* FileDescriptor::read: the possible results of read(2) into a buffer of
\* `len` bytes.  Each result is <<ret, bytes, file'>>.
FdRead(f, len) ==
    LET avail == Len(f.data) - f.offset
        most  == Min(len, avail)
    IN  {<<-1, <<>>, f>>}
        \cup (IF most = 0 THEN {<<0, <<>>, f>>} ELSE {})
        \cup {<<k, SubSeq(f.data, f.offset + 1, f.offset + k),
                [f EXCEPT !.offset = @ + k]>> : k \in 1..most}

\* FileDescriptor::write: the possible results of write(2) of `buf`.  The
\* call may fail, or store a prefix of buf (all of it, or fewer bytes).
\* Each result is <<ret, file'>>.
FdWrite(f, buf) ==
    {<<-1, f>>}
    \cup {<<k, [f EXCEPT !.data = StoreAt(@, f.offset, SubSeq(buf, 1, k)),
                         !.offset = @ + k]>> : k \in 0..Len(buf)}

\* FileDescriptor::lseek with OffsetBase::SeekCur.
FdLseekCur(f, offset) ==
    {<<-1, f>>, <<f.offset + offset, [f EXCEPT !.offset = @ + offset]>>}

\* FileDescriptor::ftruncate.
FdFtruncate(f, length) ==
    {<<-1, f>>, <<0, [f EXCEPT !.data = SetLength(@, length)]>>}

\* FileDescriptor::open.  The call fails, or gives a descriptor at offset 0
\* of the file, emptied when O_TRUNC is among the flags.  The pointer handed
\* to open(2) is taken from a CString that is dropped before the call, so
\* which path the kernel sees is not defined; success and failure are both
\* kept as outcomes whatever the path was.
FdOpen(f, trunc) ==
    {<<-1, f>>, <<0, [data |-> IF trunc THEN <<>> ELSE f.data, offset |-> 0]>>}

\* FileDescriptor::close.
FdClose(f) == {<<-1, f>>, <<0, f>>}

\* ------------------------------------------------------------------------
\* err.rs: diagnostics.  Both kinds return Err(()); they differ in what is
\* printed: err_exit! prints the errno's description, fatal! does not.
\* ------------------------------------------------------------------------

err_exit(msg) == [kind |-> "err_exit", msg |-> msg]

fatal(msg) == [kind |-> "fatal", msg |-> msg]

\* ------------------------------------------------------------------------
\* copy_holes.rs: Region and RegionReader
\* ------------------------------------------------------------------------

Hole(size) == [kind |-> "Hole", size |-> size, data |-> <<>>]

Data(data) == [kind |-> "Data", size |-> Len(data), data |-> data]

\* value of the variable `earlier` while the program runs for the first time
NoEarlier == [ran |-> FALSE, dest |-> <<>>, whole |-> FALSE]

\* placeholder of the variable `region` while no region is held
NoRegion == [kind |-> "None", size |-> 0, data |-> <<>>]

\* the closure |&byte| byte == 0, as the set of bytes it accepts
IsZeroByte == {0}

\* the closure |&byte| byte != 0, as the set of bytes it accepts
IsNonZeroByte == Nat \ {0}

\* An attach that takes the zeroed buffer for bytes already read
RegionReader_attach_full(fd, size) ==
    [fd |-> fd, buffer |-> Zeros(size), next_index |-> 0, bytes_read |-> size]

\* RegionReader::attach
RegionReader_attach(fd, size) ==
    [fd |-> fd, buffer |-> Zeros(size), next_index |-> 0, bytes_read |-> 0]

\* A next_region that scans the whole buffer, beyond the bytes just read
next_region_whole_buffer(r, predicate) ==
    LET hits == {i \in r.next_index..(Len(r.buffer) - 1) :
                    r.buffer[i + 1] \in predicate}
    IN  IF hits # {}
        THEN CHOOSE i \in hits : \A j \in hits : i <= j
        ELSE r.bytes_read

\* RegionReader::next_region: the first index at or beyond next_index and
\* below bytes_read whose byte satisfies the predicate, else bytes_read.
next_region(r, predicate) ==
    LET hits == {i \in r.next_index..(r.bytes_read - 1) :
                    r.buffer[i + 1] \in predicate}
    IN  IF hits # {}
        THEN CHOOSE i \in hits : \A j \in hits : i <= j
        ELSE r.bytes_read

\* A classification that reports the end index of a hole as its length
ClassifyRegion_hole_end(r) ==
    LET current_region_start == r.next_index
    IN  IF r.buffer[current_region_start + 1] = 0
        THEN LET n == next_region(r, IsNonZeroByte)
             IN  <<[r EXCEPT !.next_index = n], Hole(n)>>
        ELSE LET n == next_region(r, IsZeroByte)
             IN  <<[r EXCEPT !.next_index = n],
                   Data(SubSeq(r.buffer, current_region_start + 1, n))>>

\* A classification that returns one byte per region
ClassifyRegion_byte_by_byte(r) ==
    LET current_region_start == r.next_index
        n == current_region_start + 1
    IN  IF r.buffer[current_region_start + 1] = 0
        THEN <<[r EXCEPT !.next_index = n], Hole(1)>>
        ELSE <<[r EXCEPT !.next_index = n],
               Data(SubSeq(r.buffer, current_region_start + 1, n))>>

\* A classification whose Data region runs to the end of the valid bytes
ClassifyRegion_data_to_end(r) ==
    LET current_region_start == r.next_index
    IN  IF r.buffer[current_region_start + 1] = 0
        THEN LET n == next_region(r, IsNonZeroByte)
             IN  <<[r EXCEPT !.next_index = n],
                   Hole(n - current_region_start)>>
        ELSE <<[r EXCEPT !.next_index = r.bytes_read],
               Data(SubSeq(r.buffer, current_region_start + 1, r.bytes_read))>>

\* A classification that returns an empty hole and leaves the cursor
ClassifyRegion_stuck(r) == <<r, Hole(0)>>

\* The classification half of RegionReader::read (after the refill):
\* <<reader', region>>.
ClassifyRegion(r) ==
    LET current_region_start == r.next_index
    IN  IF r.buffer[current_region_start + 1] = 0
        THEN LET n == next_region(r, IsNonZeroByte)
             IN  <<[r EXCEPT !.next_index = n],
                   Hole(n - current_region_start)>>
        ELSE LET n == next_region(r, IsZeroByte)
             IN  <<[r EXCEPT !.next_index = n],
                   Data(SubSeq(r.buffer, current_region_start + 1, n))>>

\* The buffer after read(2) stored `bytes` at its start: the bytes beyond
\* them keep what earlier reads left there.
RefillBuffer(buffer, bytes) ==
    [i \in 1..Len(buffer) |-> IF i <= Len(bytes) THEN bytes[i] ELSE buffer[i]]

\* A read that stores the count of an empty read in bytes_read
RegionReader_read_eof_resets_mark(r, f) ==
    IF r.next_index = r.bytes_read
    THEN {LET ret   == x[1]
              bytes == x[2]
              call  == <<Op(r.fd, "read", f.offset, Len(r.buffer), <<>>, ret)>>
          IN  IF ret = 0
              THEN [reader |-> [r EXCEPT !.bytes_read = 0], file |-> x[3],
                    ops |-> call, diag |-> <<>>,
                    ret |-> "None", region |-> NoRegion]
              ELSE IF ret = -1
              THEN [reader |-> r, file |-> x[3], ops |-> call,
                    diag |-> <<err_exit("reading input file")>>,
                    ret |-> "Err", region |-> NoRegion]
              ELSE LET filled == [r EXCEPT
                                    !.buffer = RefillBuffer(@, bytes),
                                    !.bytes_read = ret,
                                    !.next_index = 0]
                       c == ClassifyRegion(filled)
                   IN  [reader |-> c[1], file |-> x[3], ops |-> call,
                        diag |-> <<>>, ret |-> "Some", region |-> c[2]]
          : x \in FdRead(f, Len(r.buffer))}
    ELSE {LET c == ClassifyRegion(r)
          IN  [reader |-> c[1], file |-> f, ops |-> <<>>, diag |-> <<>>,
               ret |-> "Some", region |-> c[2]]}

\* A read that asks the source for bytes on every call
RegionReader_read_always_refills(r, f) ==
    {LET ret   == x[1]
         bytes == x[2]
         call  == <<Op(r.fd, "read", f.offset, Len(r.buffer), <<>>, ret)>>
     IN  IF ret = 0
         THEN [reader |-> r, file |-> x[3], ops |-> call, diag |-> <<>>,
               ret |-> "None", region |-> NoRegion]
         ELSE IF ret = -1
         THEN [reader |-> r, file |-> x[3], ops |-> call,
               diag |-> <<err_exit("reading input file")>>,
               ret |-> "Err", region |-> NoRegion]
         ELSE LET filled == [r EXCEPT
                               !.buffer = RefillBuffer(@, bytes),
                               !.bytes_read = ret,
                               !.next_index = 0]
                  c == ClassifyRegion(filled)
              IN  [reader |-> c[1], file |-> x[3], ops |-> call,
                   diag |-> <<>>, ret |-> "Some", region |-> c[2]]
     : x \in FdRead(f, Len(r.buffer))}

\* RegionReader::read.  The set of possible outcomes, each a record with the
\* reader and the file afterwards, the system calls made (at most one read),
\* the diagnostics printed, and the value returned: ret is "Some" (with the
\* region), "None" or "Err".
RegionReader_read(r, f) ==
    IF r.next_index = r.bytes_read
    THEN {LET ret   == x[1]
              bytes == x[2]
              call  == <<Op(r.fd, "read", f.offset, Len(r.buffer), <<>>, ret)>>
          IN  IF ret = 0
              THEN [reader |-> r, file |-> x[3], ops |-> call, diag |-> <<>>,
                    ret |-> "None", region |-> NoRegion]
              ELSE IF ret = -1
              THEN [reader |-> r, file |-> x[3], ops |-> call,
                    diag |-> <<err_exit("reading input file")>>,
                    ret |-> "Err", region |-> NoRegion]
              ELSE LET filled == [r EXCEPT
                                    !.buffer = RefillBuffer(@, bytes),
                                    !.bytes_read = ret,
                                    !.next_index = 0]
                       c == ClassifyRegion(filled)
                   IN  [reader |-> c[1], file |-> x[3], ops |-> call,
                        diag |-> <<>>, ret |-> "Some", region |-> c[2]]
          : x \in FdRead(f, Len(r.buffer))}
    ELSE {LET c == ClassifyRegion(r)
          IN  [reader |-> c[1], file |-> f, ops |-> <<>>, diag |-> <<>>,
               ret |-> "Some", region |-> c[2]]}

\* ------------------------------------------------------------------------
\* copy_holes.rs: BulkWriter
\*
\* A writer method is modelled as an operator from a "world" to the set of
\* worlds it can end in.  A world is the writer, the file behind its
\* descriptor, the system calls and diagnostics made so far in the call,
\* and ok: FALSE once a try! has returned Err.
\* ------------------------------------------------------------------------

World(w, f) == [writer |-> w, file |-> f, ops |-> <<>>, diag |-> <<>>,
                ok |-> TRUE]

\* try!: run the step on every world that has not failed yet
Try(S, step(_)) == UNION {IF s.ok THEN step(s) ELSE {s} : s \in S}

\* Capacity of a Vec of capacity `cap` once it must hold `needed` elements:
\* unchanged while they fit, otherwise the allocation grows either to the
\* exact size or by amortised doubling.
VecGrow(cap, needed) ==
    IF needed <= cap THEN {cap} ELSE {needed, Max(2 * cap, needed)}

\* BulkWriter::attach
BulkWriter_attach(fd, size) ==
    [fd |-> fd, buffer |-> <<>>, capacity |-> size, pending_extend |-> 0,
     bytes_added |-> 0]

\* BulkWriter::remaining
remaining(w) == w.capacity - Len(w.buffer)

\* A flush_writes that does not compare the byte count with the buffer length
flush_writes_unchecked(s) ==
    {LET byte_count == x[1]
         call == Op(s.writer.fd, "write", s.file.offset, Len(s.writer.buffer),
                    s.writer.buffer, byte_count)
     IN  IF byte_count = -1
         THEN [s EXCEPT !.ops = Append(@, call),
                        !.diag = Append(@, err_exit("write failure")),
                        !.ok = FALSE]
         ELSE [s EXCEPT !.file = x[2],
                        !.ops = Append(@, call),
                        !.writer.bytes_added = @ + byte_count,
                        !.writer.buffer = <<>>]
     : x \in FdWrite(s.file, s.writer.buffer)}

\* A flush_writes that reports a short write the way it reports a failed one
flush_writes_same_report(s) ==
    {LET byte_count == x[1]
         call == Op(s.writer.fd, "write", s.file.offset, Len(s.writer.buffer),
                    s.writer.buffer, byte_count)
     IN  IF byte_count = -1
         THEN [s EXCEPT !.ops = Append(@, call),
                        !.diag = Append(@, err_exit("write failure")),
                        !.ok = FALSE]
         ELSE IF Len(s.writer.buffer) # byte_count
         THEN [s EXCEPT !.file = x[2],
                        !.ops = Append(@, call),
                        !.writer.bytes_added = @ + byte_count,
                        !.diag = Append(@, err_exit("write failure")),
                        !.ok = FALSE]
         ELSE [s EXCEPT !.file = x[2],
                        !.ops = Append(@, call),
                        !.writer.bytes_added = @ + byte_count,
                        !.writer.buffer = <<>>]
     : x \in FdWrite(s.file, s.writer.buffer)}

\* A flush_writes that tallies the bytes only of a complete write
flush_writes_tally_complete(s) ==
    {LET byte_count == x[1]
         call == Op(s.writer.fd, "write", s.file.offset, Len(s.writer.buffer),
                    s.writer.buffer, byte_count)
     IN  IF byte_count = -1
         THEN [s EXCEPT !.ops = Append(@, call),
                        !.diag = Append(@, err_exit("write failure")),
                        !.ok = FALSE]
         ELSE IF Len(s.writer.buffer) # byte_count
         THEN [s EXCEPT !.file = x[2],
                        !.ops = Append(@, call),
                        !.diag = Append(@, fatal("wrote partial data")),
                        !.ok = FALSE]
         ELSE [s EXCEPT !.file = x[2],
                        !.ops = Append(@, call),
                        !.writer.bytes_added = @ + byte_count,
                        !.writer.buffer = <<>>]
     : x \in FdWrite(s.file, s.writer.buffer)}

\* BulkWriter::flush_writes
flush_writes(s) ==
    {LET byte_count == x[1]
         call == Op(s.writer.fd, "write", s.file.offset, Len(s.writer.buffer),
                    s.writer.buffer, byte_count)
     IN  IF byte_count = -1
         THEN [s EXCEPT !.ops = Append(@, call),
                        !.diag = Append(@, err_exit("write failure")),
                        !.ok = FALSE]
         ELSE IF Len(s.writer.buffer) # byte_count
         THEN [s EXCEPT !.file = x[2],
                        !.ops = Append(@, call),
                        !.writer.bytes_added = @ + byte_count,
                        !.diag = Append(@, fatal("wrote partial data")),
                        !.ok = FALSE]
         ELSE [s EXCEPT !.file = x[2],
                        !.ops = Append(@, call),
                        !.writer.bytes_added = @ + byte_count,
                        !.writer.buffer = <<>>]
     : x \in FdWrite(s.file, s.writer.buffer)}

\* flush_extends that tallies the pending amount without moving the offset
flush_extends_no_seek(s) ==
    {[s EXCEPT !.ops = Append(@, Op(s.writer.fd, "lseek", s.file.offset,
                                    s.writer.pending_extend, <<>>,
                                    s.file.offset)),
               !.writer.bytes_added = @ + s.writer.pending_extend,
               !.writer.pending_extend = 0]}

\* A flush_extends that carries on when lseek has failed
flush_extends_ignore_error(s) ==
    {LET call == Op(s.writer.fd, "lseek", s.file.offset,
                    s.writer.pending_extend, <<>>, x[1])
     IN  [s EXCEPT !.file = x[2],
                   !.ops = Append(@, call),
                   !.writer.bytes_added = @ + s.writer.pending_extend,
                   !.writer.pending_extend = 0]
     : x \in FdLseekCur(s.file, s.writer.pending_extend)}

\* BulkWriter::flush_extends
flush_extends(s) ==
    {LET call == Op(s.writer.fd, "lseek", s.file.offset,
                    s.writer.pending_extend, <<>>, x[1])
     IN  IF x[1] = -1
         THEN [s EXCEPT !.ops = Append(@, call),
                        !.diag = Append(@, err_exit("lseek by amount")),
                        !.ok = FALSE]
         ELSE [s EXCEPT !.file = x[2],
                        !.ops = Append(@, call),
                        !.writer.bytes_added = @ + s.writer.pending_extend,
                        !.writer.pending_extend = 0]
     : x \in FdLseekCur(s.file, s.writer.pending_extend)}

RECURSIVE WriteLoop(_, _, _)
\* The while loop of BulkWriter::write, from the iteration that starts with
\* `bytes_buffered` bytes of `data` already buffered
WriteLoop(s, data, bytes_buffered) ==
    IF ~(bytes_buffered < Len(data))
    THEN {s}
    ELSE LET flushed == IF remaining(s.writer) = 0
                        THEN flush_writes(s)
                        ELSE {s}
             Rest(t) ==
                LET capacity_index == bytes_buffered + t.writer.capacity
                    end   == Min(capacity_index, Len(data))
                    slice == SubSeq(data, bytes_buffered + 1, end)
                    buf   == t.writer.buffer \o slice
                IN  UNION {WriteLoop([t EXCEPT !.writer.buffer = buf,
                                               !.writer.capacity = c],
                                     data, bytes_buffered + Len(slice))
                           : c \in VecGrow(t.writer.capacity, Len(buf))}
         IN  Try(flushed, Rest)

\* A first half of write that seeks before it writes the buffered bytes
FlushPending_seek_first(s, data) ==
    IF s.writer.pending_extend > 0 /\ Len(data) > 0
    THEN LET Written(t) == IF Len(t.writer.buffer) > 0
                           THEN flush_writes(t)
                           ELSE {t}
         IN  Try(flush_extends(s), Written)
    ELSE {s}

\* A first half of write that flushes whatever the data is
FlushPending_any_data(s, data) ==
    IF s.writer.pending_extend > 0
    THEN LET written == IF Len(s.writer.buffer) > 0
                        THEN flush_writes(s)
                        ELSE {s}
         IN  Try(written, flush_extends)
    ELSE {s}

\* A first half of write that leaves the pending hole pending
FlushPending_never(s, data) == {s}

\* The first half of BulkWriter::write: flush what must precede the data
FlushPending(s, data) ==
    IF s.writer.pending_extend > 0 /\ Len(data) > 0
    THEN LET written == IF Len(s.writer.buffer) > 0
                        THEN flush_writes(s)
                        ELSE {s}
         IN  Try(written, flush_extends)
    ELSE {s}

\* BulkWriter::write
BulkWriter_write(s, data) ==
    LET Loop(t) == WriteLoop(t, data, 0)
    IN  Try(FlushPending(s, data), Loop)

\* An extend that counts the amount as already added to the file
BulkWriter_extend_as_added(w, amount) ==
    [w EXCEPT !.bytes_added = @ + amount]

\* An extend that forgets the amount already pending
BulkWriter_extend_overwrite(w, amount) ==
    [w EXCEPT !.pending_extend = amount]

\* BulkWriter::extend
BulkWriter_extend(w, amount) ==
    [w EXCEPT !.pending_extend = @ + amount]

\* A detach that realises the trailing hole as one more forward seek
FixLength_by_seek(s) ==
    IF s.writer.pending_extend > 0 THEN flush_extends(s) ELSE {s}

\* The set-length half of BulkWriter::detach
FixLength(s) ==
    IF s.writer.pending_extend > 0
    THEN LET file_length == s.writer.bytes_added + s.writer.pending_extend
         IN  {LET call == Op(s.writer.fd, "ftruncate", s.file.offset,
                             file_length, <<>>, x[1])
              IN  IF x[1] = -1
                  THEN [s EXCEPT !.ops = Append(@, call),
                                 !.diag = Append(@, err_exit("ftruncate")),
                                 !.ok = FALSE]
                  ELSE [s EXCEPT !.file = x[2], !.ops = Append(@, call)]
              : x \in FdFtruncate(s.file, file_length)}
    ELSE {s}

\* A detach that forgets the bytes still buffered
BulkWriter_detach_no_flush(s) == FixLength(s)

\* A detach that flushes the buffer even when it holds nothing
BulkWriter_detach_flush_always(s) == Try(flush_writes(s), FixLength)

\* BulkWriter::detach
BulkWriter_detach(s) ==
    LET flushed == IF Len(s.writer.buffer) > 0 THEN flush_writes(s) ELSE {s}
    IN  Try(flushed, FixLength)

\* ------------------------------------------------------------------------
\* copy_holes.rs: copy_with_holes, one action per call it makes
\* ------------------------------------------------------------------------

Sources == SeqsUpTo(Bytes, MaxLen)

File(data) == [data |-> data, offset |-> 0]

\* The state in which copy_with_holes is entered: the input descriptor at
\* the start of the source, the output descriptor on an empty file
\* (open_output passes O_TRUNC), reader and writer not yet created.
Init ==
    /\ BUF_SIZE \in 1..MaxBufSize
    /\ prog = "copy_holes"
    /\ pc = "attach"
    /\ result = "none"
    /\ \E src \in Sources :
          fds = [input |-> File(src), output |-> File(<<>>),
                 stdout |-> File(<<>>)]
    /\ reader = RegionReader_attach("none", 0)
    /\ writer = BulkWriter_attach("none", 0)
    /\ region = NoRegion
    /\ regions = <<>>
    /\ calls = <<>>
    /\ ops = <<>>
    /\ diag = <<>>
    /\ handles = {"input", "output"}
    /\ earlier = NoEarlier

\* lines 53-54: the reader and the writer are attached
Attach ==
    /\ prog = "copy_holes" /\ pc = "attach"
    /\ reader' = RegionReader_attach("input", BUF_SIZE)
    /\ writer' = BulkWriter_attach("output", BUF_SIZE)
    /\ pc' = "read"
    /\ UNCHANGED <<handles, earlier>>
    /\ UNCHANGED <<BUF_SIZE, prog, result, fds, region, regions, calls, ops,
                   diag>>

\* line 57: try!(reader.read())
ReaderRead ==
    /\ prog = "copy_holes" /\ pc = "read"
    /\ \E o \in RegionReader_read(reader, fds.input) :
          /\ reader' = o.reader
          /\ fds' = [fds EXCEPT !.input = o.file]
          /\ ops' = ops \o o.ops
          /\ diag' = diag \o o.diag
          /\ region' = o.region
          /\ regions' = IF o.ret = "Some" THEN Append(regions, o.region)
                        ELSE regions
          /\ pc' = CASE o.ret = "Some" -> "region"
                     [] o.ret = "None" -> "detach"
                     [] OTHER          -> "done"
          /\ result' = IF o.ret = "Err" THEN "Err" ELSE result
    /\ UNCHANGED <<handles, earlier>>
    /\ UNCHANGED <<BUF_SIZE, prog, writer, calls>>

\* line 63: Data(data) => try!(writer.write(data))
WriterWrite ==
    /\ prog = "copy_holes" /\ pc = "region" /\ region.kind = "Data"
    /\ \E s \in BulkWriter_write(World(writer, fds.output), region.data) :
          /\ writer' = s.writer
          /\ fds' = [fds EXCEPT !.output = s.file]
          /\ ops' = ops \o s.ops
          /\ diag' = diag \o s.diag
          /\ pc' = IF s.ok THEN "read" ELSE "done"
          /\ result' = IF s.ok THEN result ELSE "Err"
    /\ calls' = Append(calls, region)
    /\ region' = NoRegion
    /\ UNCHANGED <<handles, earlier>>
    /\ UNCHANGED <<BUF_SIZE, prog, reader, regions>>

\* A driver that drops a Hole region instead of handing it to the writer
WriterExtend_skipped ==
    /\ prog = "copy_holes" /\ pc = "region" /\ region.kind = "Hole"
    /\ region' = NoRegion
    /\ pc' = "read"
    /\ UNCHANGED <<handles, earlier>>
    /\ UNCHANGED <<BUF_SIZE, prog, result, fds, reader, writer, regions,
                   calls, ops, diag>>

\* line 64: Hole(size) => writer.extend(size as u64)
WriterExtend ==
    /\ prog = "copy_holes" /\ pc = "region" /\ region.kind = "Hole"
    /\ writer' = BulkWriter_extend(writer, region.size)
    /\ calls' = Append(calls, region)
    /\ region' = NoRegion
    /\ pc' = "read"
    /\ UNCHANGED <<handles, earlier>>
    /\ UNCHANGED <<BUF_SIZE, prog, result, fds, reader, regions, ops, diag>>

\* lines 68-70: try!(writer.detach()); Ok(())
WriterDetach ==
    /\ prog = "copy_holes" /\ pc = "detach"
    /\ \E s \in BulkWriter_detach(World(writer, fds.output)) :
          /\ writer' = s.writer
          /\ fds' = [fds EXCEPT !.output = s.file]
          /\ ops' = ops \o s.ops
          /\ diag' = diag \o s.diag
          /\ result' = IF s.ok THEN "Ok" ELSE "Err"
    /\ calls' = Append(calls, [kind |-> "detach", size |-> 0, data |-> <<>>])
    /\ pc' = "done"
    /\ UNCHANGED <<handles, earlier>>
    /\ UNCHANGED <<BUF_SIZE, prog, reader, region, regions>>

Next == Attach \/ ReaderRead \/ WriterWrite \/ WriterExtend \/ WriterDetach

Spec == Init /\ [][Next]_vars

\* The source of the worked example: three zero bytes, "AB", two zero bytes,
\* "C"
ScenarioSource == <<0, 0, 0, 65, 66, 0, 0, 67>>

\* copy_with_holes entered on the source of the worked example, with
\* buffers that hold the whole source (as the buffers of BUF_SIZE bytes do)
InitScenario ==
    /\ BUF_SIZE \in Len(ScenarioSource)..(Len(ScenarioSource) + MaxBufSize)
    /\ prog = "copy_holes"
    /\ pc = "attach"
    /\ result = "none"
    /\ fds = [input |-> File(ScenarioSource), output |-> File(<<>>),
              stdout |-> File(<<>>)]
    /\ reader = RegionReader_attach("none", 0)
    /\ writer = BulkWriter_attach("none", 0)
    /\ region = NoRegion
    /\ regions = <<>>
    /\ calls = <<>>
    /\ ops = <<>>
    /\ diag = <<>>
    /\ handles = {"input", "output"}
    /\ earlier = NoEarlier

SpecScenario == InitScenario /\ [][Next]_vars

\* main_with_io entered with two path arguments: no descriptor is open yet
InitMain ==
    /\ BUF_SIZE \in 1..MaxBufSize
    /\ prog = "copy_holes"
    /\ pc = "open_input"
    /\ result = "none"
    /\ \E src \in Sources :
          fds = [input |-> File(src), output |-> File(<<>>),
                 stdout |-> File(<<>>)]
    /\ reader = RegionReader_attach("none", 0)
    /\ writer = BulkWriter_attach("none", 0)
    /\ region = NoRegion
    /\ regions = <<>>
    /\ calls = <<>>
    /\ ops = <<>>
    /\ diag = <<>>
    /\ handles = {}
    /\ earlier = NoEarlier

\* line 26: let input_fd = try!(open_input(&argv[1]))
OpenInput ==
    /\ prog = "copy_holes" /\ pc = "open_input"
    /\ \E x \in FdOpen(fds.input, FALSE) :
          /\ ops' = Append(ops, Op("input", "open", 0, 0, <<>>, x[1]))
          /\ fds' = [fds EXCEPT !.input = x[2]]
          /\ IF x[1] = -1
             THEN /\ diag' = Append(diag, err_exit("opening input file"))
                  /\ result' = "Err"
                  /\ pc' = "exit"
                  /\ handles' = handles
             ELSE /\ diag' = diag
                  /\ result' = result
                  /\ pc' = "open_output"
                  /\ handles' = handles \cup {"input"}
    /\ UNCHANGED <<BUF_SIZE, prog, reader, writer, region, regions, calls,
                   earlier>>

\* line 27: let output_fd = try!(open_output(&argv[2]))
OpenOutput ==
    /\ prog = "copy_holes" /\ pc = "open_output"
    /\ \E x \in FdOpen(fds.output, TRUE) :
          /\ ops' = Append(ops, Op("output", "open", 0, 0, <<>>, x[1]))
          /\ fds' = [fds EXCEPT !.output = x[2]]
          /\ IF x[1] = -1
             THEN /\ diag' = Append(diag, err_exit("opening output file"))
                  /\ result' = "Err"
                  /\ pc' = "exit"
                  /\ handles' = handles
             ELSE /\ diag' = diag
                  /\ result' = result
                  /\ pc' = "attach"
                  /\ handles' = handles \cup {"output"}
    /\ UNCHANGED <<BUF_SIZE, prog, reader, writer, region, regions, calls,
                   earlier>>

\* A clean-up of the input that goes on when close has failed
CleanUpInput_swallows ==
    /\ prog = "copy_holes" /\ pc = "done" /\ result = "Ok"
    /\ "input" \in handles
    /\ \E x \in FdClose(fds.input) :
          ops' = Append(ops, Op("input", "close", fds.input.offset, 0,
                                <<>>, x[1]))
    /\ pc' = "close_output"
    /\ handles' = handles \ {"input"}
    /\ UNCHANGED <<BUF_SIZE, prog, result, fds, reader, writer, region,
                   regions, calls, diag, earlier>>

\* line 31: try!(clean_up(input_fd, "input")), reached when
\* try!(copy_with_holes(..)) on line 29 has not returned from main_with_io
CleanUpInput ==
    /\ prog = "copy_holes" /\ pc = "done" /\ result = "Ok"
    /\ "input" \in handles
    /\ \E x \in FdClose(fds.input) :
          /\ ops' = Append(ops, Op("input", "close", fds.input.offset, 0,
                                   <<>>, x[1]))
          /\ IF x[1] = -1
             THEN /\ diag' = Append(diag, err_exit("close input"))
                  /\ result' = "Err"
                  /\ pc' = "exit"
             ELSE /\ diag' = diag
                  /\ result' = result
                  /\ pc' = "close_output"
    /\ handles' = handles \ {"input"}
    /\ UNCHANGED <<BUF_SIZE, prog, fds, reader, writer, region, regions,
                   calls, earlier>>

\* lines 32-34: try!(clean_up(output_fd, "output")); Ok(())
CleanUpOutput ==
    /\ prog = "copy_holes" /\ pc = "close_output"
    /\ \E x \in FdClose(fds.output) :
          /\ ops' = Append(ops, Op("output", "close", fds.output.offset, 0,
                                   <<>>, x[1]))
          /\ diag' = IF x[1] = -1
                     THEN Append(diag, err_exit("close output"))
                     ELSE diag
          /\ result' = IF x[1] = -1 THEN "Err" ELSE "Ok"
    /\ pc' = "exit"
    /\ handles' = handles \ {"output"}
    /\ UNCHANGED <<BUF_SIZE, prog, fds, reader, writer, region, regions,
                   calls, earlier>>

NextMain == OpenInput \/ OpenOutput \/ Next \/ CleanUpInput \/ CleanUpOutput

SpecMain == InitMain /\ [][NextMain]_vars

\* reader.read() is called again after it has returned None, as a caller
\* other than copy_with_holes may do; an Err ends the run as try! does
ReadAgain ==
    /\ prog = "copy_holes" /\ pc = "detach"
    /\ Cardinality({i \in 1..Len(ops) :
                       ops[i].op = "read" /\ ops[i].ret = 0}) <= MaxPolls
    /\ \E o \in RegionReader_read(reader, fds.input) :
          /\ reader' = o.reader
          /\ fds' = [fds EXCEPT !.input = o.file]
          /\ ops' = ops \o o.ops
          /\ diag' = diag \o o.diag
          /\ region' = o.region
          /\ regions' = IF o.ret = "Some" THEN Append(regions, o.region)
                        ELSE regions
          /\ pc' = IF o.ret = "Err" THEN "done" ELSE "detach"
          /\ result' = IF o.ret = "Err" THEN "Err" ELSE result
    /\ UNCHANGED <<handles, earlier>>
    /\ UNCHANGED <<BUF_SIZE, prog, writer, calls>>

NextReader == Next \/ ReadAgain

SpecReader == Init /\ [][NextReader]_vars

\* copy_with_holes as it runs: sequential code, whose next call is always
\* made
SpecLive == Init /\ [][Next]_vars /\ WF_vars(Next)

\* writer.write(&[]) is called between two regions, once in a run, as a
\* caller other than copy_with_holes may do
WriteEmpty ==
    /\ prog = "copy_holes" /\ pc = "read"
    /\ \A c \in 1..Len(calls) : calls[c] # Data(<<>>)
    /\ \E s \in BulkWriter_write(World(writer, fds.output), <<>>) :
          /\ writer' = s.writer
          /\ fds' = [fds EXCEPT !.output = s.file]
          /\ ops' = ops \o s.ops
          /\ diag' = diag \o s.diag
          /\ pc' = IF s.ok THEN "read" ELSE "done"
          /\ result' = IF s.ok THEN result ELSE "Err"
    /\ calls' = Append(calls, Data(<<>>))
    /\ UNCHANGED <<handles, earlier>>
    /\ UNCHANGED <<BUF_SIZE, prog, reader, region, regions>>

NextWriter == Next \/ WriteEmpty

SpecWriter == Init /\ [][NextWriter]_vars

\* The program is run once more on the same source and a fresh destination
\* after a run that returned Ok: what the earlier run left is remembered,
\* the source is back at offset 0 and copy_with_holes is entered again.
RunAgain ==
    /\ prog = "copy_holes" /\ pc = "done" /\ result = "Ok"
    /\ ~earlier.ran
    /\ earlier' = [ran |-> TRUE, dest |-> fds.output.data,
                   whole |-> \A i \in 1..Len(ops) :
                                ops[i].op = "read" =>
                                   ops[i].ret \in {0, Len(fds.input.data)}]
    /\ fds' = [input |-> File(fds.input.data), output |-> File(<<>>),
               stdout |-> File(<<>>)]
    /\ pc' = "attach"
    /\ result' = "none"
    /\ reader' = RegionReader_attach("none", 0)
    /\ writer' = BulkWriter_attach("none", 0)
    /\ region' = NoRegion
    /\ regions' = <<>>
    /\ calls' = <<>>
    /\ ops' = <<>>
    /\ diag' = <<>>
    /\ UNCHANGED <<BUF_SIZE, prog, handles>>

NextTwice == Next \/ RunAgain

SpecTwice == Init /\ [][NextTwice]_vars

\* ------------------------------------------------------------------------
\* copy.rs: the transfer loop and the clean-up of main_with_io
\* ------------------------------------------------------------------------

\* One iteration of the loop of copy.rs (lines 46-58): a read into buf and
\* a write of the bytes read.  next is where main_with_io goes on: "loop",
\* "close" after the break, or "done" after a return.
CopyIteration(fin, fout, size) ==
    UNION {
       LET bytes_read == x[1]
           rd == Op("input", "read", fin.offset, size, <<>>, bytes_read)
       IN  IF bytes_read = 0
           THEN {[input |-> x[3], output |-> fout, ops |-> <<rd>>,
                  diag |-> <<>>, next |-> "close"]}
           ELSE IF bytes_read = -1
           THEN {[input |-> x[3], output |-> fout, ops |-> <<rd>>,
                  diag |-> <<err_exit("reading file")>>, next |-> "done"]}
           ELSE {LET bytes_written == y[1]
                     wr == Op("output", "write", fout.offset, Len(x[2]),
                              x[2], bytes_written)
                 IN  IF bytes_written = -1
                     THEN [input |-> x[3], output |-> y[2],
                           ops |-> <<rd, wr>>,
                           diag |-> <<err_exit("writing file")>>,
                           next |-> "done"]
                     ELSE IF bytes_read = bytes_written
                     THEN [input |-> x[3], output |-> y[2],
                           ops |-> <<rd, wr>>, diag |-> <<>>,
                           next |-> "loop"]
                     ELSE [input |-> x[3], output |-> y[2],
                           ops |-> <<rd, wr>>,
                           diag |-> <<fatal("couldn't write whole buffer")>>,
                           next |-> "done"]
                 : y \in FdWrite(fout, x[2])}
       : x \in FdRead(fin, size)}

\* The clean-up of copy.rs (lines 62-72): close input, then close output.
CopyCleanUpOutcomes(fin, fout) ==
    UNION {
       LET c1 == Op("input", "close", fin.offset, 0, <<>>, x[1])
       IN  IF x[1] = -1
           THEN {[ops |-> <<c1>>, diag |-> <<err_exit("close input")>>,
                  ok |-> FALSE]}
           ELSE {LET c2 == Op("output", "close", fout.offset, 0, <<>>, y[1])
                 IN  IF y[1] = -1
                     THEN [ops |-> <<c1, c2>>,
                           diag |-> <<err_exit("close output")>>,
                           ok |-> FALSE]
                     ELSE [ops |-> <<c1, c2>>, diag |-> <<>>, ok |-> TRUE]
                 : y \in FdClose(fout)}
       : x \in FdClose(fin)}

\* copy.rs lines 46-58: one iteration of the transfer loop
CopyTransfer ==
    /\ prog = "copy" /\ pc = "loop"
    /\ \E o \in CopyIteration(fds.input, fds.output, BUF_SIZE) :
          /\ fds' = [fds EXCEPT !.input = o.input, !.output = o.output]
          /\ ops' = ops \o o.ops
          /\ diag' = diag \o o.diag
          /\ pc' = o.next
          /\ result' = IF o.next = "done" THEN "Err" ELSE result
    /\ UNCHANGED <<handles, earlier>>
    /\ UNCHANGED <<BUF_SIZE, prog, reader, writer, region, regions, calls>>

\* copy.rs lines 62-72: the descriptors are closed and true is returned
CopyCleanUp ==
    /\ prog = "copy" /\ pc = "close"
    /\ \E o \in CopyCleanUpOutcomes(fds.input, fds.output) :
          /\ ops' = ops \o o.ops
          /\ diag' = diag \o o.diag
          /\ result' = IF o.ok THEN "Ok" ELSE "Err"
          /\ handles' = handles \ {o.ops[i].fd : i \in 1..Len(o.ops)}
    /\ pc' = "done"
    /\ UNCHANGED <<BUF_SIZE, earlier, prog, fds, reader, writer, region,
                   regions, calls>>

\* ------------------------------------------------------------------------
\* tee.rs: write_buf and the loop of main_with_result
\* ------------------------------------------------------------------------

\* write_buf: the outcomes are <<ok, file', system call, diagnostics>>
write_buf(fd, f, buf) ==
    {LET count == y[1]
         wr == Op(fd, "write", f.offset, Len(buf), buf, count)
     IN  IF count = -1
         THEN <<FALSE, y[2], wr, <<err_exit("write()")>>>>
         ELSE IF count = Len(buf)
         THEN <<TRUE, y[2], wr, <<>>>>
         ELSE <<FALSE, y[2], wr, <<fatal("incomplete write")>>>>
     : y \in FdWrite(f, buf)}

\* One iteration of the loop of tee.rs (lines 30-39): a read of stdin, then
\* write_buf on the destination file and write_buf on stdout.
TeeIteration(fin, fdest, fout, size) ==
    UNION {
       LET bytes_read == x[1]
           rd == Op("input", "read", fin.offset, size, <<>>, bytes_read)
       IN  IF bytes_read = 0
           THEN {[input |-> x[3], output |-> fdest, stdout |-> fout,
                  ops |-> <<rd>>, diag |-> <<>>, next |-> "close"]}
           ELSE IF bytes_read = -1
           THEN {[input |-> x[3], output |-> fdest, stdout |-> fout,
                  ops |-> <<rd>>, diag |-> <<err_exit("read() on stdin")>>,
                  next |-> "done"]}
           ELSE UNION {
                  IF ~d[1]
                  THEN {[input |-> x[3], output |-> d[2], stdout |-> fout,
                         ops |-> <<rd, d[3]>>, diag |-> d[4],
                         next |-> "done"]}
                  ELSE {[input |-> x[3], output |-> d[2], stdout |-> o[2],
                         ops |-> <<rd, d[3], o[3]>>, diag |-> o[4],
                         next |-> IF o[1] THEN "loop" ELSE "done"]
                        : o \in write_buf("stdout", fout, x[2])}
                  : d \in write_buf("output", fdest, x[2])}
       : x \in FdRead(fin, size)}

\* tee.rs lines 30-39: one iteration of the loop
TeeTransfer ==
    /\ prog = "tee" /\ pc = "loop"
    /\ \E o \in TeeIteration(fds.input, fds.output, fds.stdout, BUF_SIZE) :
          /\ fds' = [input |-> o.input, output |-> o.output,
                     stdout |-> o.stdout]
          /\ ops' = ops \o o.ops
          /\ diag' = diag \o o.diag
          /\ pc' = o.next
          /\ result' = IF o.next = "done" THEN "Err" ELSE result
    /\ UNCHANGED <<handles, earlier>>
    /\ UNCHANGED <<BUF_SIZE, prog, reader, writer, region, regions, calls>>

\* tee.rs lines 41-43: the destination file is closed
TeeClose ==
    /\ prog = "tee" /\ pc = "close"
    /\ \E x \in FdClose(fds.output) :
          /\ ops' = Append(ops, Op("output", "close", fds.output.offset, 0,
                                   <<>>, x[1]))
          /\ diag' = IF x[1] = -1
                     THEN Append(diag, err_exit("close() on file"))
                     ELSE diag
          /\ result' = IF x[1] = -1 THEN "Err" ELSE "Ok"
    /\ handles' = handles \ {"output"}
    /\ pc' = "done"
    /\ UNCHANGED <<BUF_SIZE, earlier, prog, fds, reader, writer, region,
                   regions, calls>>

\* ------------------------------------------------------------------------
\* The three tools that copy a stream, side by side
\* ------------------------------------------------------------------------

\* copy_holes at the entry of copy_with_holes; copy and tee at the entry of
\* their loop, the source at offset 0 and the sinks empty.
InitTools ==
    /\ BUF_SIZE \in 1..MaxBufSize
    /\ prog \in {"copy_holes", "copy", "tee"}
    /\ pc = IF prog = "copy_holes" THEN "attach" ELSE "loop"
    /\ result = "none"
    /\ \E src \in Sources :
          fds = [input |-> File(src), output |-> File(<<>>),
                 stdout |-> File(<<>>)]
    /\ reader = RegionReader_attach("none", 0)
    /\ writer = BulkWriter_attach("none", 0)
    /\ region = NoRegion
    /\ regions = <<>>
    /\ calls = <<>>
    /\ ops = <<>>
    /\ diag = <<>>
    /\ handles = {"input", "output"}
    /\ earlier = NoEarlier

NextTools ==
    \/ Attach \/ ReaderRead \/ WriterWrite \/ WriterExtend \/ WriterDetach
    \/ CopyTransfer \/ CopyCleanUp
    \/ TeeTransfer \/ TeeClose

SpecTools == InitTools /\ [][NextTools]_vars

\* ------------------------------------------------------------------------
\* Properties of copy_with_holes
\* ------------------------------------------------------------------------

Source == fds.input.data

Dest == fds.output.data

\* copy_with_holes has returned Ok
CopyOk == prog = "copy_holes" /\ pc = "done" /\ result = "Ok"

\* the system calls of kind `op` issued on descriptor `fd`, as indices of ops
OpsOn(fd, op) == {i \in 1..Len(ops) : ops[i].fd = fd /\ ops[i].op = op}

\* the reads of the source that returned bytes
Refills == {i \in OpsOn("input", "read") : ops[i].ret > 0}

\* C1: when copy_with_holes returns Ok, the destination has the length of
\* the source and reads back as exactly the source bytes, whatever the
\* source's mix of zero and non-zero bytes and however its reads were split.
C1_RoundTrip ==
    CopyOk => Len(Dest) = Len(Source) /\ Dest = Source

\* a successful copy of a source with zero and non-zero bytes that arrived
\* in more than one read
C1_Witness ==
    /\ CopyOk
    /\ \E i, j \in 1..Len(Source) : Source[i] = 0 /\ Source[j] # 0
    /\ Cardinality(Refills) >= 2
    /\ Dest = Source

\* the system calls the step from the current state to the next one issued
NewOps == SubSeq(ops', Len(ops) + 1, Len(ops'))

\* the step is the call of writer.detach()
IsDetachStep == prog = "copy_holes" /\ pc = "detach" /\ pc' = "done"

EndsInZero(bytes) == Len(bytes) > 0 /\ bytes[Len(bytes)] = 0

EndsInData(bytes) == Len(bytes) > 0 /\ bytes[Len(bytes)] # 0

\* C2: detach never seeks; when the source ends in zero bytes and the copy
\* succeeds, detach calls ftruncate exactly once, with bytes_added +
\* pending_extend, which is the source's length; when the source is
\* non-empty and ends in a non-zero byte, detach never calls ftruncate.
C2_TrailingHole ==
    [][IsDetachStep =>
        LET new    == NewOps
            seeks  == {i \in 1..Len(new) : new[i].op = "lseek"}
            truncs == {i \in 1..Len(new) : new[i].op = "ftruncate"}
        IN  /\ seeks = {}
            /\ (result' = "Ok" /\ EndsInZero(Source)) =>
                  /\ Cardinality(truncs) = 1
                  /\ \A i \in truncs :
                        /\ new[i].arg =
                              writer'.bytes_added + writer.pending_extend
                        /\ new[i].arg = Len(Source)
            /\ EndsInData(Source) => truncs = {}
      ]_vars

\* a successful copy of a source that ends in two zero bytes after data,
\* whose length was fixed by ftruncate
C2_Witness ==
    /\ CopyOk
    /\ Len(Source) >= 3
    /\ Source[Len(Source)] = 0 /\ Source[Len(Source) - 1] = 0
    /\ Source[Len(Source) - 2] # 0
    /\ OpsOn("output", "ftruncate") # {}
    /\ ops[Len(ops)].op = "ftruncate" /\ ops[Len(ops)].arg = Len(Source)

\* the positions of the source (1-based) covered by the k-th region returned
RECURSIVE RegionStart(_)
RegionStart(k) == IF k <= 1 THEN 0 ELSE RegionStart(k - 1) + regions[k - 1].size

RegionPositions(k) == (RegionStart(k) + 1)..(RegionStart(k) + regions[k].size)

\* the positions classified as part of a Hole region
HolePositions ==
    UNION {RegionPositions(k) : k \in {j \in 1..Len(regions) :
                                          regions[j].kind = "Hole"}}

\* the positions of the destination covered by some write call
WrittenPositions ==
    UNION {(ops[i].offset + 1)..(ops[i].offset + ops[i].ret)
           : i \in OpsOn("output", "write")}

\* the positions of the destination a forward seek or set-length produced
SkippedPositions ==
    UNION {(ops[i].offset + 1)..(ops[i].offset + ops[i].arg)
           : i \in {j \in OpsOn("output", "lseek") : ops[j].ret # -1}}
    \cup UNION {(ops[i].offset + 1)..ops[i].arg
           : i \in {j \in OpsOn("output", "ftruncate") : ops[j].ret # -1}}

\* C3: in a successful copy no write call covers a position the reader
\* classified as hole, such a position exists through a seek or the final
\* set-length and reads back as zero, every other position holds the source
\* byte, and no write call contains a zero byte.
C3_SparseEquivalence ==
    /\ CopyOk =>
          /\ \A p \in HolePositions :
                /\ p \notin WrittenPositions
                /\ p \in SkippedPositions
                /\ p <= Len(Dest) /\ Dest[p] = 0
          /\ \A p \in (1..Len(Source)) \ HolePositions :
                /\ p \in WrittenPositions
                /\ p <= Len(Dest) /\ Dest[p] = Source[p]
    /\ prog = "copy_holes" =>
          \A i \in OpsOn("output", "write") :
             \A k \in 1..Len(ops[i].data) : ops[i].data[k] # 0

\* a successful copy with a hole realised by a seek between two writes
C3_Witness ==
    /\ CopyOk
    /\ \E i, j \in OpsOn("output", "write"), k \in OpsOn("output", "lseek") :
          i < k /\ k < j
    /\ HolePositions # {}
    /\ HolePositions \cap WrittenPositions = {}

RECURSIVE Expand(_)
\* the bytes a sequence of regions stands for: Hole(n) is n zero bytes
Expand(rs) ==
    IF rs = <<>> THEN <<>>
    ELSE Expand(SubSeq(rs, 1, Len(rs) - 1))
         \o (IF rs[Len(rs)].kind = "Hole" THEN Zeros(rs[Len(rs)].size)
             ELSE rs[Len(rs)].data)

RECURSIVE SumSizes(_)
SumSizes(rs) ==
    IF rs = <<>> THEN 0
    ELSE SumSizes(SubSeq(rs, 1, Len(rs) - 1)) + rs[Len(rs)].size

\* RegionReader.read has returned None
ReturnedNone ==
    prog = "copy_holes" /\ \E i \in OpsOn("input", "read") : ops[i].ret = 0

\* the number of bytes read from the source and not yet returned in a region
Unclassified == reader.bytes_read - reader.next_index

\* C4: the regions returned so far, with each Hole(n) replaced by n zero
\* bytes, are exactly the source bytes read and classified so far, and once
\* read has returned None they are the whole source, so that the region
\* lengths sum to the source length.
C4_Partition ==
    prog = "copy_holes" =>
       /\ Expand(regions) =
             SubSeq(Source, 1, fds.input.offset - Unclassified)
       /\ ReturnedNone =>
             /\ Expand(regions) = Source
             /\ SumSizes(regions) = Len(Source)

\* read has returned None after at least three regions from two refills
C4_Witness ==
    /\ ReturnedNone
    /\ Len(regions) >= 3
    /\ Cardinality(Refills) >= 2
    /\ SumSizes(regions) = Len(Source)

\* the source offsets at which a refill of the reader's buffer started
RefillStarts == {ops[i].offset : i \in Refills}

\* the source offsets at which a refill of the reader's buffer ended
RefillEnds == {ops[i].offset + ops[i].ret : i \in Refills}

\* C5 as claimed: two consecutive regions never have the same kind.
C5_NeverSameKind ==
    prog = "copy_holes" =>
       \A k \in 1..(Len(regions) - 1) : regions[k].kind # regions[k + 1].kind

\* C5 as amended: two consecutive regions classified from the same refill
\* of the buffer never have the same kind; two consecutive regions have the
\* same kind only when the second starts a new refill.
C5_SameKindOnlyAcrossRefill ==
    prog = "copy_holes" =>
       \A k \in 1..(Len(regions) - 1) :
          RegionStart(k + 1) \notin RefillStarts
             => regions[k].kind # regions[k + 1].kind

\* three consecutive regions classified from one refill, and a pair of
\* Hole regions on the two sides of a refill
C5_Witness ==
    /\ prog = "copy_holes"
    /\ \E k \in 1..(Len(regions) - 2) :
          /\ RegionStart(k + 1) \notin RefillStarts
          /\ RegionStart(k + 2) \notin RefillStarts
    /\ \E k \in 1..(Len(regions) - 1) :
          /\ regions[k].kind = "Hole" /\ regions[k + 1].kind = "Hole"
          /\ RegionStart(k + 1) \in RefillStarts

\* C6: every region returned is non-empty and correctly classified: a Hole
\* stands for source bytes that are all zero; a Data region holds the source
\* bytes of its positions, starts with a non-zero byte, contains no zero
\* byte and ends at the first zero byte after its start or at the end of
\* the bytes of its refill.
C6_RegionsClassified ==
    prog = "copy_holes" =>
       \A k \in 1..Len(regions) :
          LET rg    == regions[k]
              first == RegionStart(k) + 1
              last  == RegionStart(k) + rg.size
          IN  /\ rg.size >= 1
              /\ last <= Len(Source)
              /\ rg.kind = "Hole" =>
                    \A p \in first..last : Source[p] = 0
              /\ rg.kind = "Data" =>
                    /\ Len(rg.data) = rg.size
                    /\ rg.data = SubSeq(Source, first, last)
                    /\ rg.data[1] # 0
                    /\ \A i \in 1..Len(rg.data) : rg.data[i] # 0
                    /\ \/ last \in RefillEnds
                       \/ last < Len(Source) /\ Source[last + 1] = 0

\* a Data region ended by a zero byte inside the buffer, a Data region ended
\* by the end of the buffer's valid bytes, and a Hole of two bytes
C6_Witness ==
    /\ prog = "copy_holes"
    /\ \E k \in 1..Len(regions) :
          /\ regions[k].kind = "Data"
          /\ RegionStart(k) + regions[k].size \notin RefillEnds
    /\ \E k \in 1..Len(regions) :
          /\ regions[k].kind = "Data"
          /\ RegionStart(k) + regions[k].size \in RefillEnds
    /\ \E k \in 1..Len(regions) :
          regions[k].kind = "Hole" /\ regions[k].size >= 2

\* the step is the call of writer.write(data)
IsWriteStep == prog = "copy_holes" /\ pc = "region" /\ region.kind = "Data"

\* the step is the call of writer.extend(size)
IsExtendStep == prog = "copy_holes" /\ pc = "region" /\ region.kind = "Hole"

\* the order of the system calls of one write call that finds a pending hole
WriteCallInOrder ==
    (IsWriteStep /\ writer.pending_extend > 0 /\ Len(region.data) > 0) =>
       LET new   == NewOps
           first == IF Len(writer.buffer) > 0 THEN 2 ELSE 1
           seeks == {i \in 1..Len(new) : new[i].op = "lseek"}
       IN  /\ Len(new) >= 1
           /\ Len(writer.buffer) > 0 =>
                 /\ new[1].op = "write"
                 /\ new[1].data = writer.buffer
                 /\ new[1].ret # Len(writer.buffer) => Len(new) = 1
           /\ seeks \subseteq {first}
           /\ Len(new) >= first =>
                 /\ new[first].op = "lseek"
                 /\ new[first].arg = writer.pending_extend
                 /\ new[first].ret # -1 => writer'.pending_extend = 0
           /\ \A i \in (first + 1)..Len(new) :
                 /\ new[i].op = "write"
                 /\ \E a \in 0..Len(region.data) :
                       new[i].data =
                          SubSeq(region.data, a + 1, a + Len(new[i].data))
           /\ (pc' = "read" /\ Len(writer.buffer) > 0) => Len(new) >= 2

\* the place of every seek among the writes of the copy so far: the bytes a
\* seek skips are a hole of the source, every write before it stores source
\* bytes that precede the hole, every write after it source bytes that
\* follow the hole
SeeksInOrder ==
    prog = "copy_holes" =>
       /\ \A j \in OpsOn("output", "write") :
             ops[j].data =
                SubSeq(Source, ops[j].offset + 1,
                       ops[j].offset + Len(ops[j].data))
       /\ \A k \in {i \in OpsOn("output", "lseek") : ops[i].ret # -1} :
             /\ \A p \in (ops[k].offset + 1)..(ops[k].offset + ops[k].arg) :
                   p <= Len(Source) /\ Source[p] = 0
             /\ \A j \in OpsOn("output", "write") :
                   /\ j < k => ops[j].offset + Len(ops[j].data) <= ops[k].offset
                   /\ j > k => ops[j].offset >= ops[k].offset + ops[k].arg

\* C7: a write call that finds a pending hole first writes the previously
\* buffered bytes (if any), then seeks forward once by exactly
\* pending_extend, which becomes 0, and only then writes new data; over the
\* copy no seek comes after a write of data that follows its hole or before
\* the write of data that precedes it.
C7_FlushBeforeSeek == [][WriteCallInOrder]_vars /\ []SeeksInOrder

\* a write call has written buffered bytes and then sought over a hole, and
\* the data that follows the hole has been written after the seek
C7_Witness ==
    /\ prog = "copy_holes"
    /\ \E i, j \in OpsOn("output", "write"), k \in OpsOn("output", "lseek") :
          /\ k = i + 1 /\ k < j
          /\ ops[i].ret = ops[i].arg /\ ops[k].ret # -1
          /\ ops[k].offset = ops[i].offset + ops[i].ret
          /\ ops[j].offset = ops[k].offset + ops[k].arg

\* C8: extend(n) adds n to pending_extend and does nothing else: no system
\* call is issued, the file is untouched, and the output buffer, its
\* capacity and bytes_added are unchanged.
C8_ExtendOnlyAccumulates ==
    [][IsExtendStep =>
          /\ writer'.pending_extend = writer.pending_extend + region.size
          /\ writer'.buffer = writer.buffer
          /\ writer'.capacity = writer.capacity
          /\ writer'.bytes_added = writer.bytes_added
          /\ ops' = ops
          /\ fds' = fds
      ]_vars

\* extend has been called while bytes were buffered and a hole was pending
C8_Witness ==
    /\ prog = "copy_holes" /\ pc = "read"
    /\ Len(calls) >= 3
    /\ calls[Len(calls)].kind = "Hole" /\ calls[Len(calls) - 1].kind = "Hole"
    /\ Len(writer.buffer) > 0
    /\ writer.pending_extend =
          calls[Len(calls)].size + calls[Len(calls) - 1].size

\* the mark that stands for a byte of a hole in a logical stream: a value
\* that is not a byte
HoleByte == MaxByte + 1

Holes(n) == [i \in 1..n |-> HoleByte]

RECURSIVE CallStream(_)
\* the logical stream handed to the writer: the bytes of the write calls
\* and the holes of the extend calls, in call order
CallStream(cs) ==
    IF cs = <<>> THEN <<>>
    ELSE LET c == cs[Len(cs)]
         IN  CallStream(SubSeq(cs, 1, Len(cs) - 1))
             \o (CASE c.kind = "Data" -> c.data
                   [] c.kind = "Hole" -> Holes(c.size)
                   [] OTHER           -> <<>>)

RECURSIVE SinkStream(_)
\* the logical stream the sink received: the bytes each write stored, and a
\* hole for each successful seek and for the extension of each set-length
SinkStream(os) ==
    IF os = <<>> THEN <<>>
    ELSE LET o == os[Len(os)]
         IN  SinkStream(SubSeq(os, 1, Len(os) - 1))
             \o (CASE o.fd = "output" /\ o.op = "write" /\ o.ret >= 0 ->
                         SubSeq(o.data, 1, o.ret)
                   [] o.fd = "output" /\ o.op = "lseek" /\ o.ret # -1 ->
                         Holes(o.arg)
                   [] o.fd = "output" /\ o.op = "ftruncate" /\ o.ret # -1 ->
                         Holes(o.arg - o.offset)
                   [] OTHER -> <<>>)

\* detach has returned Ok
DetachOk == CopyOk /\ calls # <<>> /\ calls[Len(calls)].kind = "detach"

\* C9: after detach returns Ok nothing remains buffered, every byte passed
\* to write has reached the sink exactly once and in call order, and every
\* amount passed to extend has become a seek before the later data or part
\* of the final set-length.
C9_DetachFlushesAll ==
    DetachOk =>
       /\ writer.buffer = <<>>
       /\ SinkStream(ops) = CallStream(calls)
       /\ \A k \in OpsOn("output", "ftruncate") : k = Len(ops)

\* detach has returned Ok after it wrote buffered bytes and set the length
\* for a trailing hole, and an earlier hole became a seek
C9_Witness ==
    /\ DetachOk
    /\ Len(ops) >= 2
    /\ ops[Len(ops)].op = "ftruncate"
    /\ ops[Len(ops) - 1].op = "write"
    /\ OpsOn("output", "lseek") # {}

\* the writes that stored fewer bytes than requested and reported no error
ShortWrites ==
    {i \in 1..Len(ops) :
        ops[i].op = "write" /\ ops[i].ret >= 0 /\ ops[i].ret < ops[i].arg}

\* C10: once a write on a sink has returned fewer bytes than requested
\* without an error, the tool (copy_holes, copy or tee) has failed: it has
\* returned Err, never Ok, and it issues no further write on that sink, so
\* the remainder is never sent again.
C10_ShortWriteIsFatal ==
    \A i \in ShortWrites :
       /\ pc = "done" /\ result = "Err"
       /\ \A j \in (i + 1)..Len(ops) :
             ~(ops[j].op = "write" /\ ops[j].fd = ops[i].fd)

\* copy_holes has failed on a write in the middle of the copy that stored
\* some but not all of the buffered bytes
C10_Witness ==
    /\ prog = "copy_holes" /\ pc = "done" /\ result = "Err"
    /\ \E i \in ShortWrites : ops[i].ret > 0 /\ i = Len(ops)
    /\ fds.input.offset < Len(Source)

\* the writes on which write(2) returned the error value
FailedWrites ==
    {i \in 1..Len(ops) : ops[i].op = "write" /\ ops[i].ret = -1}

\* C11: in copy_holes a short write is reported by fatal! with the message
\* "wrote partial data" and no errno, a failed write by err_exit! with the
\* message "write failure" and the errno, and neither report is ever made
\* for the other condition.
C11_ShortAndFailedReportedApart ==
    prog = "copy_holes" =>
       /\ \A i \in ShortWrites : diag = <<fatal("wrote partial data")>>
       /\ \A i \in FailedWrites : diag = <<err_exit("write failure")>>
       /\ \A k \in 1..Len(diag) :
             /\ diag[k].msg = "wrote partial data" =>
                   diag[k].kind = "fatal" /\ Len(ops) \in ShortWrites
             /\ diag[k].msg = "write failure" =>
                   diag[k].kind = "err_exit" /\ Len(ops) \in FailedWrites

\* a short write was reported by fatal! during detach
C11_Witness ==
    /\ prog = "copy_holes" /\ pc = "done" /\ result = "Err"
    /\ calls # <<>> /\ calls[Len(calls)].kind = "detach"
    /\ Len(ops) \in ShortWrites
    /\ diag = <<fatal("wrote partial data")>>

\* the system calls that failed: an error return, or a short write
FailedOps == {i \in 1..Len(ops) : ops[i].ret = -1} \cup ShortWrites

RECURSIVE ReplayOutput(_)
\* the contents of the destination that the system calls logged so far
\* produce, starting from the empty file
ReplayOutput(os) ==
    IF os = <<>> THEN <<>>
    ELSE LET o    == os[Len(os)]
             before == ReplayOutput(SubSeq(os, 1, Len(os) - 1))
         IN  CASE o.fd = "output" /\ o.op = "write" /\ o.ret >= 0 ->
                     StoreAt(before, o.offset, SubSeq(o.data, 1, o.ret))
               [] o.fd = "output" /\ o.op = "ftruncate" /\ o.ret # -1 ->
                     SetLength(before, o.arg)
               [] OTHER -> before

\* the state once an operation of the copy has failed
StopsAtFailure ==
    prog = "copy_holes" =>
       /\ \A i \in FailedOps :
             /\ i = Len(ops)
             /\ pc = "done" /\ result = "Err"
             /\ (\E c \in 1..Len(calls) : calls[c].kind = "detach") =>
                   \E r \in OpsOn("input", "read") : ops[r].ret = 0 /\ r < i
       /\ Dest = ReplayOutput(ops)

\* a step in which reader.read() fails leaves the writer and the destination
\* alone; a step in which a writer call fails comes from that call alone
FailureStepFrame ==
    (prog = "copy_holes" /\ result = "none" /\ result' = "Err") =>
       /\ Len(NewOps) >= 1
       /\ FailedOps' = {Len(ops')}
       /\ pc = "read" =>
             writer' = writer /\ fds'.output = fds.output /\ calls' = calls
       /\ pc # "read" => Len(calls') = Len(calls) + 1

\* C12: once a read, write, seek or set-length of copy_with_holes fails the
\* copy returns Err at once: the failed call is the last system call ever
\* issued, nothing buffered is flushed, detach is not called after the
\* failure, and the destination stays as the calls before the failure
\* left it.
C12_FailureStopsCopy == []StopsAtFailure /\ [][FailureStepFrame]_vars

\* a seek failed while bytes of the new data were still to be written and
\* source bytes were still to be read
C12_Witness ==
    /\ prog = "copy_holes" /\ pc = "done" /\ result = "Err"
    /\ ops[Len(ops)].op = "lseek" /\ ops[Len(ops)].ret = -1
    /\ Len(Dest) > 0
    /\ fds.input.offset < Len(Source)
    /\ writer.pending_extend > 0

\* the system calls issued on the destination, in order
OutputOps == SelectSeq(ops, LAMBDA o : o.fd = "output")

\* C13: an empty source gives a zero-length destination and no write, seek
\* or set-length is issued at all; a source of one non-zero byte gives
\* exactly one write, of that byte, and no seek or set-length; a source of
\* one zero byte gives no write, no seek and exactly one set-length, to 1,
\* and a destination of one zero byte.
C13_BoundarySources ==
    prog = "copy_holes" =>
       /\ Source = <<>> => OutputOps = <<>> /\ Dest = <<>>
       /\ (Len(Source) = 1 /\ Source[1] # 0) =>
             /\ OpsOn("output", "lseek") = {}
             /\ OpsOn("output", "ftruncate") = {}
             /\ CopyOk =>
                   /\ Len(OutputOps) = 1
                   /\ OutputOps[1].op = "write"
                   /\ OutputOps[1].data = Source /\ OutputOps[1].ret = 1
                   /\ Dest = Source
       /\ Source = <<0>> =>
             /\ OpsOn("output", "write") = {}
             /\ OpsOn("output", "lseek") = {}
             /\ CopyOk =>
                   /\ Len(OutputOps) = 1
                   /\ OutputOps[1].op = "ftruncate"
                   /\ OutputOps[1].arg = 1 /\ OutputOps[1].ret # -1
                   /\ Dest = <<0>>

\* the copy of a source of one zero byte has returned Ok
C13_Witness ==
    /\ CopyOk /\ Source = <<0>> /\ Dest = <<0>>
    /\ OpsOn("output", "ftruncate") # {}

\* the regions the reader has to return for the worked example
ScenarioRegions == <<Hole(3), Data(<<65, 66>>), Hole(2), Data(<<67>>)>>

\* the calls the destination has to see for the worked example: the kind of
\* call, the amount of a seek, the bytes of a write
ScenarioSink ==
    <<[op |-> "lseek", arg |-> 3, data |-> <<>>],
      [op |-> "write", arg |-> 2, data |-> <<65, 66>>],
      [op |-> "lseek", arg |-> 2, data |-> <<>>],
      [op |-> "write", arg |-> 1, data |-> <<67>>]>>

\* the whole source arrived in the first read
SingleRead ==
    /\ prog = "copy_holes" /\ Source = ScenarioSource
    /\ ops # <<>> /\ ops[1].op = "read" /\ ops[1].ret = Len(ScenarioSource)

\* C14: for the source [0,0,0,65,66,0,0,67] delivered by a single read the
\* reader returns exactly Hole(3), Data([65,66]), Hole(2), Data([67]) and
\* then None, and the destination sees exactly seek(+3), write([65,66]),
\* seek(+2), write([67]), no set-length and no zero byte written, and ends
\* as [0,0,0,65,66,0,0,67].
C14_Scenario ==
    SingleRead =>
       /\ regions = SubSeq(ScenarioRegions, 1, Len(regions))
       /\ ReturnedNone => regions = ScenarioRegions
       /\ OpsOn("output", "ftruncate") = {}
       /\ \A i \in OpsOn("output", "write") :
             \A j \in 1..Len(ops[i].data) : ops[i].data[j] # 0
       /\ CopyOk =>
             /\ ReturnedNone
             /\ [i \in 1..Len(OutputOps) |->
                    [op |-> OutputOps[i].op, arg |-> OutputOps[i].arg,
                     data |-> OutputOps[i].data]] = ScenarioSink
             /\ \A i \in 1..Len(OutputOps) :
                   OutputOps[i].ret = OutputOps[i].offset + OutputOps[i].arg
                   \/ OutputOps[i].ret = OutputOps[i].arg
             /\ Dest = ScenarioSource

\* the worked example was read in one piece and copied
C14_Witness ==
    SingleRead /\ CopyOk /\ regions = ScenarioRegions /\ Dest = ScenarioSource

\* C15: copying the same source twice to fresh destinations gives
\* byte-identical destinations of equal length, also when the reads of the
\* source return different chunk sizes in the two runs.
C15_SameDestinationTwice ==
    (CopyOk /\ earlier.ran) =>
       Len(Dest) = Len(earlier.dest) /\ Dest = earlier.dest

\* the earlier run got the source in one read, this run in several, and
\* the source has a hole between data
C15_Witness ==
    /\ CopyOk /\ earlier.ran /\ earlier.whole
    /\ Cardinality(Refills) >= 2
    /\ \E i, j, k \in 1..Len(Source) :
          i < j /\ j < k /\ Source[i] # 0 /\ Source[j] = 0 /\ Source[k] # 0
    /\ Dest = earlier.dest

\* the step of copy_with_holes that attaches the reader and the writer
IsAttachStep == prog = "copy_holes" /\ pc = "attach" /\ pc' = "read"

\* what attaching leaves alone and what it sets up
AttachFrame ==
    IsAttachStep =>
       /\ ops' = ops
       /\ fds' = fds
       /\ reader'.fd = "input" /\ writer'.fd = "output"
       /\ reader'.next_index = 0 /\ reader'.bytes_read = 0
       /\ writer'.buffer = <<>>
       /\ writer'.pending_extend = 0 /\ writer'.bytes_added = 0

\* the reader and the writer as they are until the first call on them
FreshlyAttached ==
    (prog = "copy_holes" /\ pc = "read" /\ ops = <<>>) =>
       /\ reader = RegionReader_attach("input", BUF_SIZE)
       /\ writer = BulkWriter_attach("output", BUF_SIZE)
       /\ reader.next_index = reader.bytes_read /\ reader.bytes_read = 0
       /\ writer.buffer = <<>>
       /\ writer.pending_extend = 0 /\ writer.bytes_added = 0
       /\ fds.input.offset = 0 /\ fds.output = File(<<>>)

\* C16: RegionReader::attach and BulkWriter::attach issue no read, write,
\* seek or set-length, so offsets and contents of source and destination
\* are as before; the reader starts with cursor = high-water mark = 0,
\* the writer with an empty buffer, pending_extend = 0 and bytes_added = 0.
C16_AttachTouchesNothing == [][AttachFrame]_vars /\ []FreshlyAttached

\* reader and writer are attached to a non-empty source and nothing has
\* been read yet
C16_Witness ==
    /\ prog = "copy_holes" /\ pc = "read" /\ ops = <<>>
    /\ Len(Source) > 0
    /\ reader.fd = "input" /\ writer.fd = "output"
    /\ reader.bytes_read = 0 /\ writer.buffer = <<>>

\* the step is a call of reader.read()
IsReadStep ==
    prog = "copy_holes" /\ (pc = "read" \/ (pc = "detach" /\ calls' = calls))

\* what the call of reader.read() in the step returned
ReadReturnedNone == pc' = "detach" /\ regions' = regions /\ result' = result

ReadReturnedSome == regions' = Append(regions, region') /\ result' = result

\* one call of reader.read(): when it reads the source and what it returns
ReadContract ==
    IsReadStep =>
       /\ Len(NewOps) <= 1
       /\ NewOps # <<>> <=> reader.next_index = reader.bytes_read
       /\ NewOps # <<>> => NewOps[1].fd = "input" /\ NewOps[1].op = "read"
       /\ ReadReturnedNone <=> (NewOps # <<>> /\ NewOps[1].ret = 0)
       /\ Unclassified > 0 => ReadReturnedSome
       /\ pc = "detach" =>
             /\ ~ReadReturnedSome
             /\ (NewOps # <<>> /\ NewOps[1].ret = 0) =>
                   ReadReturnedNone /\ reader' = reader /\ fds' = fds

\* C17: RegionReader::read reads the source only when the cursor equals the
\* high-water mark and returns None exactly when such a read returns 0
\* bytes; it never returns None while unclassified bytes remain, and after
\* returning None it returns None on every later call for which the source
\* keeps reporting 0 bytes.
C17_ReadContract == [][ReadContract]_vars

\* read() has returned None three times in a row after a source with data
\* and a hole was classified
C17_Witness ==
    /\ prog = "copy_holes" /\ pc = "detach"
    /\ Cardinality({i \in OpsOn("input", "read") : ops[i].ret = 0}) >= 3
    /\ ops[Len(ops)].ret = 0 /\ ops[Len(ops) - 1].ret = 0
    /\ Len(regions) >= 2
    /\ calls # <<>>

\* C18: the output buffer of the writer is bounded: at every point the
\* number of bytes buffered is at most the initial capacity BUF_SIZE, for
\* every sequence of write and extend calls, Data regions of up to BUF_SIZE
\* bytes arriving at a partly filled buffer included.
C18_BufferBounded ==
    prog = "copy_holes" =>
       /\ Len(writer.buffer) <= BUF_SIZE
       /\ writer.capacity <= BUF_SIZE

\* the runs of Hole regions that are followed by a Data region and cannot
\* be made longer, as pairs <<first, last>> of indices of regions
HoleRuns ==
    {run \in (1..Len(regions)) \X (1..Len(regions)) :
        /\ run[1] <= run[2] /\ run[2] < Len(regions)
        /\ \A k \in run[1]..run[2] : regions[k].kind = "Hole"
        /\ regions[run[2] + 1].kind = "Data"
        /\ run[1] > 1 => regions[run[1] - 1].kind = "Data"}

\* the seeks of the copy that succeeded
Seeks == {i \in OpsOn("output", "lseek") : ops[i].ret # -1}

\* two extends in a row are one extend of the sum, for the writer as it is:
\* the writers are equal, so every later call does the same on either
ExtendsAdd ==
    (prog = "copy_holes" /\ writer.fd = "output") =>
       \A a, b \in 1..MaxLen :
          LET twice == BulkWriter_extend(BulkWriter_extend(writer, a), b)
              once  == BulkWriter_extend(writer, a + b)
          IN  /\ twice = once
              /\ twice.pending_extend = writer.pending_extend + a + b

\* every run of holes before data is one seek over the whole run
OneSeekPerRun ==
    CopyOk =>
       /\ \A run \in HoleRuns :
             LET from   == RegionStart(run[1])
                 amount == SumSizes(SubSeq(regions, run[1], run[2]))
                 over   == {i \in Seeks :
                               /\ ops[i].offset >= from
                               /\ ops[i].offset < from + amount}
             IN  /\ Cardinality(over) = 1
                 /\ \A i \in over : ops[i].offset = from /\ ops[i].arg = amount
       /\ Cardinality(Seeks) = Cardinality(HoleRuns)

\* C19: for the writer extend(a) followed by extend(b) leaves the same state
\* and leads to the same later calls on the destination as extend(a + b);
\* a run of consecutive Hole regions between two Data regions is realised
\* as exactly one forward seek, by the sum of their lengths.
C19_AdjacentHolesMerge == ExtendsAdd /\ OneSeekPerRun

\* a copy in which two Hole regions in a row, cut apart by a refill, lay
\* between two Data regions
C19_Witness ==
    /\ CopyOk
    /\ \E k \in 1..Len(regions) :
          /\ k + 3 <= Len(regions)
          /\ regions[k].kind = "Data" /\ regions[k + 1].kind = "Hole"
          /\ regions[k + 2].kind = "Hole" /\ regions[k + 3].kind = "Data"
          /\ \E i \in Seeks :
                ops[i].arg = regions[k + 1].size + regions[k + 2].size

\* main_with_io has returned: at its end, or from one of its try!s
MainReturned ==
    prog = "copy_holes" /\ (pc = "exit" \/ (pc = "done" /\ result = "Err"))

\* main_with_io returned Err because opening the output or a call of the
\* copy failed, after the input had been opened
AbortedAfterOpen ==
    /\ MainReturned /\ result = "Err"
    /\ \E i \in OpsOn("input", "open") : ops[i].ret # -1
    /\ OpsOn("input", "close") = {} /\ OpsOn("output", "close") = {}

\* C20: when the program aborts on an error after a file was opened (a
\* failed read, write, seek or set-length of the copy, or a failure to open
\* the output after the input was opened), every handle opened so far has
\* been closed when the program returns.
C20_HandlesReleasedOnAbort ==
    AbortedAfterOpen => handles = {}

RECURSIVE Advance(_)
\* the number of bytes by which a sequence of system calls moves the
\* destination forward: the count each write reports, the amount of each
\* seek that succeeded
Advance(os) ==
    IF os = <<>> THEN 0
    ELSE LET o == os[Len(os)]
         IN  Advance(SubSeq(os, 1, Len(os) - 1))
             + (CASE o.fd = "output" /\ o.op = "write" /\ o.ret >= 0 -> o.ret
                  [] o.fd = "output" /\ o.op = "lseek" /\ o.ret # -1 -> o.arg
                  [] OTHER -> 0)

\* bytes_added is the offset of the destination
TallyIsOffset ==
    (prog = "copy_holes" /\ writer.fd = "output") =>
       /\ writer.bytes_added = fds.output.offset
       /\ writer.bytes_added = Advance(ops)

\* a step of the writer adds to bytes_added what its system calls report
TallyStep ==
    (prog = "copy_holes" /\ pc \in {"region", "detach"}) =>
       writer'.bytes_added = writer.bytes_added + Advance(NewOps)

\* C21: with the destination at offset 0 when the writer is attached,
\* bytes_added equals the destination's offset after every step of the
\* writer, a short write, a failed write and a failed seek included: it
\* grows by the byte count each write reports and by the amount of each
\* seek that succeeds, and by nothing else.
C21_TallyIsOffset == []TallyIsOffset /\ [][TallyStep]_vars

\* a write stored only part of the buffer after a seek had succeeded
C21_Witness ==
    /\ prog = "copy_holes" /\ pc = "done" /\ result = "Err"
    /\ Len(ops) \in ShortWrites /\ ops[Len(ops)].ret >= 1
    /\ Seeks # {}
    /\ writer.bytes_added = fds.output.offset

\* the writer is attached, no call has failed and detach has not been called
BetweenWriterCalls ==
    prog = "copy_holes" /\ writer.fd = "output" /\ result = "none"

\* C22: between writer calls on an error-free run bytes_added + buffered
\* length + pending_extend is the number of logical bytes accepted so far
\* (lengths passed to write plus amounts passed to extend); the buffered
\* bytes are the accepted bytes that follow the bytes already added, and
\* when pending_extend > 0 the pending hole is the end of the accepted
\* stream, behind every buffered byte.
C22_WriterAccounting ==
    BetweenWriterCalls =>
       LET stream   == CallStream(calls)
           added    == writer.bytes_added
           buffered == Len(writer.buffer)
       IN  /\ added + buffered + writer.pending_extend = Len(stream)
           /\ Len(stream) = SumSizes(calls)
           /\ SubSeq(stream, added + 1, added + buffered) = writer.buffer
           /\ SubSeq(stream, added + buffered + 1, Len(stream))
                 = Holes(writer.pending_extend)

\* bytes are buffered and a hole is pending behind them, after an earlier
\* hole was turned into a seek
C22_Witness ==
    /\ BetweenWriterCalls /\ pc = "read"
    /\ Len(writer.buffer) > 0 /\ writer.pending_extend > 0
    /\ Seeks # {}

\* the regions handed to the writer so far, in call order
Handed == SelectSeq(calls, LAMBDA c : c.kind \in {"Data", "Hole"})

\* the calls of detach, as indices of calls
Detaches == {c \in 1..Len(calls) : calls[c].kind = "detach"}

\* the driver between the reader and the writer, state by state
HandsOverInOrder ==
    prog = "copy_holes" =>
       /\ Len(Handed) <= Len(regions)
       /\ Handed = SubSeq(regions, 1, Len(Handed))
       /\ Len(regions) - Len(Handed) <= 1
       /\ pc = "read" => Handed = regions
       /\ pc = "region" =>
             /\ Len(regions) = Len(Handed) + 1
             /\ region = regions[Len(regions)]
       /\ Cardinality(Detaches) <= 1
       /\ Detaches # {} =>
             /\ Detaches = {Len(calls)}
             /\ ReturnedNone
             /\ Handed = regions
       /\ CopyOk => Cardinality(Detaches) = 1

\* the driver step by step: a region is asked for only when the one before
\* has been handed over, write gets the Data regions and extend the Holes
HandsOverStep ==
    prog = "copy_holes" =>
       /\ regions' # regions => Handed = regions
       /\ Handed' # Handed =>
             /\ Handed' = Append(Handed, region)
             /\ (region.kind = "Data" /\ result' = "none") =>
                   /\ writer'.pending_extend = 0
                   /\ writer'.buffer # <<>>
             /\ region.kind = "Hole" =>
                   writer' = BulkWriter_extend(writer, region.size)
       /\ Detaches # {} => calls' = calls /\ regions' = regions

\* C23: copy_with_holes passes the regions to the writer in exactly the
\* order the reader produced them, each (write for Data, extend for Hole)
\* before it asks for the next one, and on an error-free run calls detach
\* exactly once, only after the reader returned None, with no write or
\* extend after it.
C23_DriverOrder == []HandsOverInOrder /\ [][HandsOverStep]_vars

\* a copy of four regions has returned Ok
C23_Witness ==
    /\ CopyOk /\ Len(regions) >= 4
    /\ calls = Append(regions, calls[Len(calls)])
    /\ Detaches = {Len(calls)}

\* after an error-free copy every seek has data written right behind it
SeekAnchored ==
    CopyOk =>
       /\ \A k \in Seeks :
             \E j \in OpsOn("output", "write") :
                /\ j > k /\ ops[j].ret >= 1
                /\ ops[j].offset = ops[k].offset + ops[k].arg
       /\ OutputOps # <<>> => OutputOps[Len(OutputOps)].op # "lseek"

\* a seek is issued only by a write call that has data, never by detach
SeekOnlyInWrite ==
    (prog = "copy_holes" /\ \E i \in 1..Len(NewOps) : NewOps[i].op = "lseek")
       => /\ IsWriteStep /\ Len(region.data) > 0
          /\ ~IsDetachStep

\* C24: every forward seek of the writer is followed, on an error-free run,
\* by a write of at least one data byte before the writer is finalized:
\* flush_extends runs only inside write with non-empty data, so a seek is
\* never the last operation on the destination and detach never seeks.
C24_SeekThenData == []SeekAnchored /\ [][SeekOnlyInWrite]_vars

\* a copy with a hole between data and a hole at the end has returned Ok:
\* one seek with data behind it, one set-length
C24_Witness ==
    /\ CopyOk /\ Seeks # {}
    /\ OpsOn("output", "ftruncate") # {}
    /\ \E k \in Seeks : \E j \in OpsOn("output", "write") : j > k

\* where in the source the byte at index i of the reader's buffer came from,
\* if the most recent read delivered it (1-based position of Source)
SourcePosition(i) == fds.input.offset - reader.bytes_read + i + 1

\* the reader's cursor and high-water mark, and the bytes below the mark
ReaderInRange ==
    (prog = "copy_holes" /\ reader.fd = "input") =>
       /\ 0 <= reader.next_index
       /\ reader.next_index <= reader.bytes_read
       /\ reader.bytes_read <= BUF_SIZE
       /\ Len(reader.buffer) = BUF_SIZE
       /\ \A i \in 0..(reader.bytes_read - 1) :
             reader.buffer[i + 1] = Source[SourcePosition(i)]

\* the byte a call of read inspects to choose between Hole and Data: the
\* one at the cursor, after the refill if there was one
InspectsFreshByte ==
    (prog = "copy_holes" /\ pc = "read" /\ regions' # regions) =>
       LET at == IF NewOps = <<>> THEN reader.next_index ELSE 0
       IN  /\ at < reader'.bytes_read
           /\ at < Len(reader'.buffer)
           /\ reader'.next_index > at
           /\ NewOps # <<>> => reader'.bytes_read = NewOps[1].ret
           /\ LET byte == reader'.buffer[at + 1]
                  from == fds'.input.offset - reader'.bytes_read + at + 1
              IN  /\ byte = Source[from]
                  /\ region'.kind = (IF byte = 0 THEN "Hole" ELSE "Data")

\* C25: in every reader state 0 <= next_index <= bytes_read <= BUF_SIZE,
\* and the buffer byte read inspects to classify the next region is at an
\* index below bytes_read: a byte the most recent read of the source
\* delivered, never one left by an earlier longer read and never out of
\* range, also after short reads.
C25_ReaderInBounds == []ReaderInRange /\ [][InspectsFreshByte]_vars

\* after a full read a shorter read has left old bytes beyond the mark, and
\* a region of the short read has been returned
C25_Witness ==
    /\ prog = "copy_holes" /\ pc = "region"
    /\ reader.bytes_read < BUF_SIZE
    /\ \E i \in Refills : ops[i].ret = BUF_SIZE /\ i < Len(ops)
    /\ ops[Len(ops)].op = "read" /\ ops[Len(ops)].ret = reader.bytes_read
    /\ reader.buffer[reader.bytes_read + 1] # 0
    /\ reader.next_index = reader.bytes_read

\* a call of reader.read() that returns a region moves the cursor forward by
\* the size of the region, which is at least one byte
ReadAdvances ==
    (prog = "copy_holes" /\ pc = "read" /\ regions' # regions) =>
       LET at == IF NewOps = <<>> THEN reader.next_index ELSE 0
       IN  /\ region'.size >= 1
           /\ reader'.next_index = at + region'.size
           /\ SumSizes(regions') = SumSizes(regions) + region'.size

\* a call of writer.write(data) that does not fail takes all of data, and
\* flushes the buffer at most once for each byte of data, and once before
\* the seek
WriteTakesAll ==
    (IsWriteStep /\ result' = "none") =>
       /\ writer'.bytes_added + Len(writer'.buffer)
             = writer.bytes_added + Len(writer.buffer)
               + writer.pending_extend + Len(region.data)
       /\ Len(NewOps) <= Len(region.data) + 2

\* the regions never cover more than the source, so there are at most as
\* many as the source has bytes; the capacity the chunking loop adds to the
\* number of bytes buffered is at least one
RegionsBounded ==
    prog = "copy_holes" =>
       /\ SumSizes(regions) <= Len(Source)
       /\ Len(regions) <= Len(Source)
       /\ writer.fd = "output" => writer.capacity >= 1
       /\ (pc = "done" /\ FailedOps = {}) => result = "Ok"

\* C26: for every finite source whose reads end by returning 0 the copy
\* terminates, with Ok when no call on source or destination fails: each
\* call of RegionReader::read advances the cursor by at least one byte or
\* returns None, so the regions are finitely many, and each iteration of
\* the loop of BulkWriter::write buffers at least one byte, so write
\* returns.
C26_Terminates ==
    /\ <>(pc = "done")
    /\ []RegionsBounded
    /\ [][ReadAdvances]_vars
    /\ [][WriteTakesAll]_vars

\* a copy of a source of the greatest length, read one byte at a time, has
\* returned Ok
C26_Witness ==
    /\ CopyOk /\ Len(Source) = MaxLen
    /\ Cardinality(Refills) = MaxLen
    /\ Len(regions) = MaxLen

\* a call of reader.read() whose read of the source failed or was empty
EmptyOrFailedRead ==
    /\ IsReadStep /\ NewOps # <<>>
    /\ NewOps[1].op = "read" /\ NewOps[1].ret \in {0, -1}

\* such a call leaves the reader as it was and returns no region
ReaderKeptOnEmptyRead ==
    EmptyOrFailedRead =>
       /\ reader.next_index = reader.bytes_read
       /\ reader' = reader
       /\ reader'.next_index = reader'.bytes_read
       /\ regions' = regions /\ region' = NoRegion
       /\ fds' = fds

\* a call that follows one that returned None starts by reading the source
FreshReadAfterNone ==
    (IsReadStep /\ pc = "detach") =>
       /\ NewOps # <<>> /\ NewOps[1].op = "read"
       /\ regions' = regions

\* C27: when the read of the source fails or returns 0, RegionReader::read
\* returns without changing next_index or bytes_read (they stay equal), so
\* no region is made of old buffer contents and a later call starts with
\* a fresh read of the source.
C27_EmptyReadKeepsReader ==
    [][ReaderKeptOnEmptyRead]_vars /\ [][FreshReadAfterNone]_vars

\* read() returned None twice while the buffer still held the bytes of the
\* last refill
C27_Witness ==
    /\ prog = "copy_holes" /\ pc = "detach"
    /\ Cardinality({i \in OpsOn("input", "read") : ops[i].ret = 0}) = 2
    /\ reader.bytes_read > 0 /\ reader.next_index = reader.bytes_read
    /\ reader.buffer[1] # 0

\* the calls of close, on either descriptor, as indices of ops
Closes == OpsOn("input", "close") \cup OpsOn("output", "close")

\* C28: no read, write, seek or set-length is issued on a descriptor after
\* close has been called on it, each opened descriptor is closed at most
\* once, and a failing close makes the program return failure, not
\* success.
C28_CloseIsFinal ==
    prog = "copy_holes" =>
       /\ \A c \in Closes :
             /\ \A j \in 1..Len(ops) : j > c => ops[j].fd # ops[c].fd
             /\ \E o \in OpsOn(ops[c].fd, "open") : o < c /\ ops[o].ret # -1
             /\ ops[c].fd \notin handles
             /\ ops[c].ret = -1 =>
                   /\ pc = "exit" /\ result = "Err"
                   /\ c = Len(ops)
                   /\ diag # <<>> /\ diag[Len(diag)].kind = "err_exit"
       /\ Cardinality(OpsOn("input", "close")) <= 1
       /\ Cardinality(OpsOn("output", "close")) <= 1
       /\ (pc = "exit" /\ result = "Ok") =>
             /\ Cardinality(Closes) = 2
             /\ \A c \in Closes : ops[c].ret # -1
             /\ handles = {}

\* the input was closed, then close failed on the output and main_with_io
\* returned Err
C28_Witness ==
    /\ prog = "copy_holes" /\ pc = "exit" /\ result = "Err"
    /\ Cardinality(Closes) = 2
    /\ ops[Len(ops)].op = "close" /\ ops[Len(ops)].fd = "output"
    /\ ops[Len(ops)].ret = -1
    /\ Len(Dest) > 0

\* the step is a call of writer.write with empty data
IsEmptyWriteStep ==
    prog = "copy_holes" /\ pc = "read" /\ calls' = Append(calls, Data(<<>>))

\* C29: BulkWriter::write called with empty data issues no system call on
\* the destination and changes nothing of the writer, also when
\* pending_extend > 0: the pending hole stays pending and is not turned
\* into a seek.
C29_EmptyWriteIsNoOp ==
    [][IsEmptyWriteStep =>
          /\ writer' = writer
          /\ ops' = ops
          /\ fds' = fds
          /\ diag' = diag
          /\ result' = result /\ pc' = "read"
      ]_vars

\* write was called with empty data while bytes were buffered and a hole
\* was pending, and the hole is still pending
C29_Witness ==
    /\ prog = "copy_holes" /\ pc = "read"
    /\ calls # <<>> /\ calls[Len(calls)] = Data(<<>>)
    /\ writer.pending_extend > 0 /\ Len(writer.buffer) > 0
    /\ OpsOn("output", "lseek") = {}

====
